---- MODULE Spec2Model ----
(***************************************************************************)
(* Rental marketplace server (src/server.js): the JSON record stores, the  *)
(* authentication and subscription middleware, and the subscription,       *)
(* listing and booking handlers.                                           *)
(*                                                                         *)
(* Node runs the code between two awaits without interruption.  A handler  *)
(* is therefore a chain of stretches, each a store read together with the  *)
(* code that follows it up to the next await, or a store write together    *)
(* with the response that follows it.  Step is one stretch; Start is the   *)
(* stretch from the arrival of the request to its first await.  readData   *)
(* parses the file into a fresh array, so what a handler holds between its *)
(* read and its write is a private snapshot (loc.data).                    *)
(*                                                                         *)
(* With one request at a time nothing runs between the stretches of a      *)
(* handler, and an action is the whole handler (Handle).  With requests in *)
(* flight together an action is one stretch of one of them (Begin, Resume).*)
(*                                                                         *)
(* Time is counted in days, money in cents, and a uuid is a fresh number.  *)
(* Fields no handler ever tests (name, description, images, rating, the    *)
(* createdAt stamps, ...) are left out of the records.                     *)
(***************************************************************************)
EXTENDS Integers, Sequences, FiniteSets, TLC

VARIABLES
    now,            \* the wall clock (new Date()), in days
    users,          \* data/users.json
    subscriptions,  \* data/subscriptions.json
    properties,     \* data/properties.json
    bookings,       \* data/bookings.json
    nextId,         \* per store: the number of uuids handed out for it
    pc,             \* per slot: where the request in flight is ("idle": none)
    req,            \* per slot: the request (its token, params and body)
    loc,            \* per slot: the handler's locals that live across an await
    last            \* the request answered by the last step: what it was, its
                    \* response, and the stores as they were before that step

vars == <<now, users, subscriptions, properties, bookings, nextId, pc, req, loc, last>>

----------------------------------------------------------------------------
(* Bounds of the model *)

MaxNow == 40
TickDays == 20
MaxSubs == 2
MaxProps == 4
MaxListings == 1
MaxBookings == 2
MaxDate == 3
MaxStay == 2
MaxCatalog == 2
MaxUsers == 1

Users == {"u1", "u2"}
Slots == {1, 2}

(* What a request can carry as its token: none, one jwt.verify rejects, or *)
(* one that verifies to a user id.                                         *)
Creds == {"none", "invalid"} \cup Users

----------------------------------------------------------------------------
(* The plan catalog *)

DurationDays == 30

plans ==
    << [id |-> "basic", price |-> 999, duration |-> DurationDays],
       [id |-> "premium", price |-> 1999, duration |-> DurationDays],
       [id |-> "enterprise", price |-> 4999, duration |-> DurationDays] >>

(* planId values a body can hold: "" is a missing field, "gold" is unknown *)
PlanInputs == {"", "basic", "premium", "enterprise", "gold"}

(* plans.find((p) => p.id === planId): the index, 0 for undefined *)
FindPlan(planId) ==
    IF \E i \in 1..Len(plans) : plans[i].id = planId
    THEN CHOOSE i \in 1..Len(plans) :
            /\ plans[i].id = planId
            /\ \A j \in 1..(i - 1) : plans[j].id # planId
    ELSE 0

----------------------------------------------------------------------------
(* Requests, locals, responses *)

NoSub == [id |-> 0, userId |-> "", planId |-> "", price |-> 0, status |-> "",
          expiresAt |-> 0, updatedAt |-> 0]

NoProp == [id |-> 0, ownerId |-> "", price |-> 0, instant |-> FALSE, premium |-> FALSE]

(* A body field: missing, a number, or a non-empty string that reads as a  *)
(* number.  A date field is <<d>>, and <<>> when missing.                  *)
Undefined == [t |-> "undefined", n |-> 0]
Num(n) == [t |-> "number", n |-> n]
Str(n) == [t |-> "string", n |-> n]

NoPatch == [f \in {} |-> 0]

NoReq == [op |-> "", cred |-> "none", email |-> "", password |-> "", name |-> "",
          planId |-> "",
          title |-> "", location |-> "", price |-> Undefined,
          id |-> 0, patch |-> NoPatch,
          propertyId |-> 0, checkIn |-> <<>>, checkOut |-> <<>>, status |-> "",
          instant |-> FALSE]

NoLoc == [sub |-> NoSub, data |-> <<>>, property |-> NoProp, index |-> 0]

NoResp == [code |-> 0, error |-> "", body |-> <<>>]

NoStores == [users |-> <<>>, subscriptions |-> <<>>, properties |-> <<>>,
             bookings |-> <<>>,
             nextId |-> [users |-> 0, subscriptions |-> 0, properties |-> 0,
                         bookings |-> 0]]

NoLast == [req |-> NoReq, resp |-> NoResp, pre |-> NoStores]

Reply(code, error, body) == [code |-> code, error |-> error, body |-> body]

(* The stores as a stretch finds them *)
Cur == [users |-> users, subscriptions |-> subscriptions, properties |-> properties,
        bookings |-> bookings, nextId |-> nextId]

(* What a stretch leaves: the handler awaits at p with locals l, or the    *)
(* response re is sent and the request is over; sh is the stores after it. *)
Wait(p, l, sh) == [pc |-> p, loc |-> l, resp |-> NoResp, sh |-> sh]
Done(re, sh) == [pc |-> "idle", loc |-> NoLoc, resp |-> re, sh |-> sh]

----------------------------------------------------------------------------
(* authenticateToken *)

AuthFails(cred) == cred \in {"none", "invalid"}

AuthReply(cred) ==
    IF cred = "none"
    THEN Reply(401, "Unauthenticated", <<>>)
    ELSE Reply(403, "Forbidden", <<>>)

----------------------------------------------------------------------------
(* Users.  A token verifies to the id of a user that register has stored;  *)
(* authenticateToken does not read the users collection.                   *)

Registered == <<[id |-> "u1", email |-> "ann@x"], [id |-> "u2", email |-> "bob@x"]>>

(* uuidv4() of the n-th user registered later *)
NewUserId(n) == "u" \o ToString(Len(Registered) + n)

(* !email || !password || !name *)
RegisterInvalid(r) == r.email = "" \/ r.password = "" \/ r.name = ""

(* users.find((u) => u.email === email) is not undefined *)
EmailTaken(us, email) == \E i \in 1..Len(us) : us[i].email = email

(* POST /api/auth/register: validation, up to readData(USERS_FILE) *)
RegisterEntry(r, sh) ==
    IF RegisterInvalid(r)
    THEN Done(Reply(400, "ValidationError", <<>>), sh)
    ELSE Wait("registerRead", NoLoc, sh)

(* The read without the lookup of the email *)
RegisterReadUnchecked(r, l, sh) ==
    Wait("registerHash", [l EXCEPT !.data = sh.users], sh)

(* readData(USERS_FILE) and the lookup of the email, up to bcrypt.hash *)
RegisterRead(r, l, sh) ==
    IF EmailTaken(sh.users, r.email)
    THEN Done(Reply(400, "EmailTaken", <<>>), sh)
    ELSE Wait("registerHash", [l EXCEPT !.data = sh.users], sh)

(* newUser pushed on the snapshot, up to writeData(USERS_FILE, users) *)
RegisterHash(r, l, sh) ==
    LET u == [id |-> NewUserId(sh.nextId.users + 1), email |-> r.email] IN
    Wait("registerWrite",
         [l EXCEPT !.data = Append(l.data, u), !.index = Len(l.data) + 1],
         [sh EXCEPT !.nextId.users = @ + 1])

(* the users written, and the response with the token *)
RegisterWrite(r, l, sh) ==
    Done(Reply(201, "", <<l.data[l.index]>>), [sh EXCEPT !.users = l.data])

----------------------------------------------------------------------------
(* Subscriptions *)

(* subscriptions.find((sub) => sub.userId === userId && sub.status ===     *)
(* "active"): the index of the first such record, 0 for undefined          *)
ActiveIndex(subs, u) ==
    IF \E i \in 1..Len(subs) : subs[i].userId = u /\ subs[i].status = "active"
    THEN CHOOSE i \in 1..Len(subs) :
            /\ subs[i].userId = u /\ subs[i].status = "active"
            /\ \A j \in 1..(i - 1) :
                  ~(subs[j].userId = u /\ subs[j].status = "active")
    ELSE 0

(* ExpiresAt with a term of two durations *)
ExpiresAtTwice(t, plan) == t + 2 * plan.duration

(* expiresAt = new Date(now); expiresAt.setDate(getDate() + plan.duration) *)
ExpiresAt(t, plan) == t + plan.duration

(* SubscribeApply with the user's record looked up whatever its status,    *)
(* and made active                                                         *)
SubscribeApplyRevives(subs, u, plan, t, newId) ==
    IF \E i \in 1..Len(subs) : subs[i].userId = u
    THEN LET i == CHOOSE j \in 1..Len(subs) : subs[j].userId = u IN
         [subs EXCEPT ![i] = [@ EXCEPT !.planId = plan.id,
                                       !.price = plan.price,
                                       !.status = "active",
                                       !.expiresAt = ExpiresAt(t, plan),
                                       !.updatedAt = t]]
    ELSE Append(subs, [id |-> newId, userId |-> u, planId |-> plan.id,
                       price |-> plan.price, status |-> "active",
                       expiresAt |-> ExpiresAt(t, plan), updatedAt |-> t])

(* SubscribeApply with the price of the record left as it was *)
SubscribeApplyOldPrice(subs, u, plan, t, newId) ==
    LET i == ActiveIndex(subs, u) IN
    IF i # 0
    THEN [subs EXCEPT ![i] = [@ EXCEPT !.planId = plan.id,
                                       !.expiresAt = ExpiresAt(t, plan),
                                       !.updatedAt = t]]
    ELSE Append(subs, [id |-> newId, userId |-> u, planId |-> plan.id,
                       price |-> plan.price, status |-> "active",
                       expiresAt |-> ExpiresAt(t, plan), updatedAt |-> t])

(* SubscribeApply without the lookup of the active record *)
SubscribeApplyAlwaysPush(subs, u, plan, t, newId) ==
    Append(subs, [id |-> newId, userId |-> u, planId |-> plan.id,
                  price |-> plan.price, status |-> "active",
                  expiresAt |-> ExpiresAt(t, plan), updatedAt |-> t])

(* The subscribe handler's change to its snapshot: the active record of    *)
(* the user updated in place, or a new record pushed.                      *)
SubscribeApply(subs, u, plan, t, newId) ==
    LET i == ActiveIndex(subs, u) IN
    IF i # 0
    THEN [subs EXCEPT ![i] = [@ EXCEPT !.planId = plan.id,
                                       !.price = plan.price,
                                       !.expiresAt = ExpiresAt(t, plan),
                                       !.updatedAt = t]]
    ELSE Append(subs, [id |-> newId, userId |-> u, planId |-> plan.id,
                       price |-> plan.price, status |-> "active",
                       expiresAt |-> ExpiresAt(t, plan), updatedAt |-> t])

(* existingSubscription || subscriptions[subscriptions.length - 1] *)
SubscribeResult(before, after, u) ==
    LET i == ActiveIndex(before, u) IN
    IF i # 0 THEN after[i] ELSE after[Len(after)]

(* readData(SUBSCRIPTIONS_FILE) and the update of the snapshot *)
SubscribeRead(r, l, sh, t) ==
    LET u == r.cred
        plan == plans[FindPlan(r.planId)]
        fresh == ActiveIndex(sh.subscriptions, u) = 0
        newId == sh.nextId.subscriptions + 1
        after == SubscribeApply(sh.subscriptions, u, plan, t, newId)
    IN Wait("subscribeWrite",
            [l EXCEPT !.data = after,
                      !.sub = SubscribeResult(sh.subscriptions, after, u)],
            IF fresh THEN [sh EXCEPT !.nextId.subscriptions = newId] ELSE sh)

(* SubscribeWrite with the caller's listings flagged after the new plan *)
SubscribeWriteReflag(r, l, sh) ==
    Done(Reply(200, "", <<l.sub>>),
         [sh EXCEPT !.subscriptions = l.data,
                    !.properties =
                        [k \in 1..Len(sh.properties) |->
                            IF sh.properties[k].ownerId = r.cred
                            THEN [sh.properties[k] EXCEPT !.premium = l.sub.planId # "basic"]
                            ELSE sh.properties[k]]])

(* writeData(SUBSCRIPTIONS_FILE, subscriptions) and the response *)
SubscribeWrite(r, l, sh) ==
    Done(Reply(200, "", <<l.sub>>), [sh EXCEPT !.subscriptions = l.data])

----------------------------------------------------------------------------
(* checkSubscription *)

(* subscriptions.find((sub) => sub.userId === req.user.userId): the index   *)
(* of the user's first record, 0 for undefined                             *)
UserIndex(subs, u) ==
    IF \E i \in 1..Len(subs) : subs[i].userId = u
    THEN CHOOSE i \in 1..Len(subs) :
            /\ subs[i].userId = u
            /\ \A j \in 1..(i - 1) : subs[j].userId # u
    ELSE 0

(* GET /api/subscriptions/my after readData(SUBSCRIPTIONS_FILE): the body  *)
(* holds the record found, and is empty for subscription: null             *)
MySubscriptionRead(r, l, sh) ==
    LET i == UserIndex(sh.subscriptions, r.cred) IN
    Done(Reply(200, "", IF i = 0 THEN <<>> ELSE <<sh.subscriptions[i]>>), sh)

(* The client's host button, given the body of the my-subscription answer: *)
(* the modal it shows                                                      *)
headerHostBtn(body) ==
    IF body = <<>> \/ body[1].status # "active"
    THEN "subscription-modal"
    ELSE "property-modal"

(* expiryDate < now *)
IsExpired(sub, t) == sub.expiresAt < t

(* !v for a body field *)
Truthy(v) ==
    CASE v.t = "undefined" -> FALSE
      [] v.t = "number" -> v.n # 0
      [] v.t = "string" -> TRUE

(* parseFloat(v) *)
ParseFloat(v) == v.n

(* !title || !location || !price *)
ListingInvalid(r) == r.title = "" \/ r.location = "" \/ ~Truthy(r.price)

(* next(): the first stretch of the handler behind the gate, which runs in *)
(* the same turn, up to the handler's first await.                         *)
HandlerEntry(r, sub, sh) ==
    LET l == [NoLoc EXCEPT !.sub = sub] IN
    CASE r.op = "createListing" ->
            IF ListingInvalid(r)
            THEN Done(Reply(400, "ValidationError", <<>>), sh)
            ELSE IF sub.planId = "basic"
            THEN Wait("createCount", l, sh)
            ELSE Wait("createRead", l, sh)
      [] r.op = "updateListing" -> Wait("updateRead", l, sh)
      [] r.op = "deleteListing" -> Wait("deleteRead", l, sh)
      [] r.op = "listMine" -> Wait("listMineRead", l, sh)
      [] r.op = "ownerBookings" -> Wait("ownerBookingsProps", l, sh)
      [] r.op = "updateStatus" -> Wait("statusRead", l, sh)

(* CheckSubscription without the expiry test *)
CheckSubscriptionNoExpiry(r, l, sh, t) ==
    LET i == ActiveIndex(sh.subscriptions, r.cred) IN
    IF i = 0
    THEN Done(Reply(403, "SubscriptionRequired", <<>>), sh)
    ELSE HandlerEntry(r, sh.subscriptions[i], sh)

(* readData(SUBSCRIPTIONS_FILE), the lookup and the expiry test *)
CheckSubscription(r, l, sh, t) ==
    LET i == ActiveIndex(sh.subscriptions, r.cred) IN
    IF i = 0
    THEN Done(Reply(403, "SubscriptionRequired", <<>>), sh)
    ELSE IF IsExpired(sh.subscriptions[i], t)
    THEN Wait("gateWrite",
              [l EXCEPT !.data = [sh.subscriptions EXCEPT ![i].status = "expired"]], sh)
    ELSE HandlerEntry(r, sh.subscriptions[i], sh)

(* ExpireWrite without the writeData *)
ExpireWriteUnsaved(r, l, sh) ==
    Done(Reply(403, "SubscriptionExpired", <<>>), sh)

(* writeData(SUBSCRIPTIONS_FILE, subscriptions) with the record expired *)
ExpireWrite(r, l, sh) ==
    Done(Reply(403, "SubscriptionExpired", <<>>), [sh EXCEPT !.subscriptions = l.data])

----------------------------------------------------------------------------
(* Listings *)

BasicLimit == 3

(* properties.findIndex((p) => p.id === id) + 1 *)
PropIndex(props, id) ==
    IF \E i \in 1..Len(props) : props[i].id = id
    THEN CHOOSE i \in 1..Len(props) :
            /\ props[i].id = id
            /\ \A j \in 1..(i - 1) : props[j].id # id
    ELSE 0

(* properties.filter((p) => p.ownerId === userId) *)
OwnedBy(props, u) == SelectSeq(props, LAMBDA p : p.ownerId = u)

(* seq.splice(i, 1) *)
Splice(seq, i) == [j \in 1..(Len(seq) - 1) |-> IF j < i THEN seq[j] ELSE seq[j + 1]]

(* OverLimit with the count of all listings, whoever owns them *)
OverLimitAnyOwner(props, u) == Len(props) >= BasicLimit

(* userProperties.length >= 3 *)
OverLimit(props, u) == Len(OwnedBy(props, u)) >= BasicLimit

(* The basic plan's limit: readData(PROPERTIES_FILE) and the count *)
CreateCount(r, l, sh) ==
    IF OverLimit(sh.properties, r.cred)
    THEN Done(Reply(403, "PlanLimitExceeded", <<>>), sh)
    ELSE Wait("createRead", l, sh)

(* newProperty with the instant flag the request asks for *)
NewPropertyAsAsked(id, r, sub) ==
    [id |-> id, ownerId |-> r.cred, price |-> ParseFloat(r.price),
     instant |-> r.instant, premium |-> sub.planId # "basic"]

NewProperty(id, r, sub) ==
    [id |-> id, ownerId |-> r.cred, price |-> ParseFloat(r.price),
     instant |-> FALSE, premium |-> sub.planId # "basic"]

(* readData(PROPERTIES_FILE) and the push of newProperty *)
CreateRead(r, l, sh) ==
    LET p == NewProperty(sh.nextId.properties + 1, r, l.sub) IN
    Wait("createWrite",
         [l EXCEPT !.data = Append(sh.properties, p), !.property = p],
         [sh EXCEPT !.nextId.properties = @ + 1])

CreateWrite(r, l, sh) ==
    Done(Reply(201, "", <<l.property>>), [sh EXCEPT !.properties = l.data])

(* MergePatch with every field of the patch taken *)
MergePatchAll(p, patch) ==
    [f \in DOMAIN p |-> IF f \in DOMAIN patch THEN patch[f] ELSE p[f]]

(* { ...property, ...req.body, id: property.id, ownerId: property.ownerId } *)
MergePatch(p, patch) ==
    [f \in DOMAIN p |->
        IF f \in {"id", "ownerId"} THEN p[f]
        ELSE IF f \in DOMAIN patch THEN patch[f]
        ELSE p[f]]

(* PUT /api/properties/:id: readData(PROPERTIES_FILE), the lookup, the     *)
(* ownership test and the merge                                            *)
UpdateRead(r, l, sh) ==
    LET i == PropIndex(sh.properties, r.id) IN
    IF i = 0
    THEN Done(Reply(404, "NotFound", <<>>), sh)
    ELSE IF sh.properties[i].ownerId # r.cred
    THEN Done(Reply(403, "Forbidden", <<>>), sh)
    ELSE LET p == MergePatch(sh.properties[i], r.patch) IN
         Wait("updateWrite",
              [l EXCEPT !.data = [sh.properties EXCEPT ![i] = p], !.property = p], sh)

(* UpdateWrite with the pending bookings of an instant listing confirmed *)
UpdateWriteConfirming(r, l, sh) ==
    Done(Reply(200, "", <<l.property>>),
         [sh EXCEPT !.properties = l.data,
                    !.bookings =
                        [i \in 1..Len(sh.bookings) |->
                            IF sh.bookings[i].propertyId = l.property.id /\ l.property.instant
                            THEN [sh.bookings[i] EXCEPT !.status = "confirmed"]
                            ELSE sh.bookings[i]]])

UpdateWrite(r, l, sh) ==
    Done(Reply(200, "", <<l.property>>), [sh EXCEPT !.properties = l.data])

(* DeleteRead without the ownership test *)
DeleteReadAnyone(r, l, sh) ==
    LET i == PropIndex(sh.properties, r.id) IN
    IF i = 0
    THEN Done(Reply(404, "NotFound", <<>>), sh)
    ELSE Wait("deleteWrite", [l EXCEPT !.data = Splice(sh.properties, i)], sh)

(* DELETE /api/properties/:id *)
DeleteRead(r, l, sh) ==
    LET i == PropIndex(sh.properties, r.id) IN
    IF i = 0
    THEN Done(Reply(404, "NotFound", <<>>), sh)
    ELSE IF sh.properties[i].ownerId # r.cred
    THEN Done(Reply(403, "Forbidden", <<>>), sh)
    ELSE Wait("deleteWrite", [l EXCEPT !.data = Splice(sh.properties, i)], sh)

(* DeleteWrite with the bookings of the listing removed as well *)
DeleteWriteCascading(r, l, sh) ==
    Done(Reply(200, "", <<>>),
         [sh EXCEPT !.properties = l.data,
                    !.bookings = SelectSeq(@, LAMBDA b : b.propertyId # r.id)])

DeleteWrite(r, l, sh) ==
    Done(Reply(200, "", <<>>), [sh EXCEPT !.properties = l.data])

(* GET /api/properties/my/listings *)
ListMineRead(r, l, sh) ==
    Done(Reply(200, "", OwnedBy(sh.properties, r.cred)), sh)

----------------------------------------------------------------------------
(* Bookings.  An instant (a Date) is a number of half days.                *)

DayLength == 2

(* DatesClash with the ends of the stays included *)
DatesClashClosed(a, b, c, d) == a <= d /\ c <= b

(* The date test of bookings.find, for the candidate (a, b) and the stored *)
(* booking (c, d)                                                          *)
DatesClash(a, b, c, d) ==
    \/ (a >= c /\ a < d)
    \/ (b > c /\ b <= d)
    \/ (a <= c /\ b >= d)

(* The callback of bookings.find((b) => ...) *)
Conflicts(bk, propertyId, a, b) ==
    IF bk.propertyId # propertyId \/ bk.status # "confirmed" THEN FALSE
    ELSE DatesClash(a, b, bk.checkIn, bk.checkOut)

(* conflictingBooking is not undefined *)
HasConflict(bks, propertyId, a, b) ==
    \E i \in 1..Len(bks) : Conflicts(bks[i], propertyId, a, b)

(* Nights with the days rounded down *)
NightsFloor(a, b) == (b - a) \div DayLength

(* Math.ceil((checkOutDate - checkInDate) / (1000 * 60 * 60 * 24)) *)
Nights(a, b) == -((a - b) \div DayLength)

(* NewBooking with every booking left for the owner to confirm *)
NewBookingPending(id, r, property) ==
    [id |-> id, propertyId |-> r.propertyId, userId |-> r.cred,
     checkIn |-> r.checkIn[1], checkOut |-> r.checkOut[1],
     totalPrice |-> property.price * Nights(r.checkIn[1], r.checkOut[1]),
     status |-> "pending"]

NewBooking(id, r, property) ==
    [id |-> id, propertyId |-> r.propertyId, userId |-> r.cred,
     checkIn |-> r.checkIn[1], checkOut |-> r.checkOut[1],
     totalPrice |-> property.price * Nights(r.checkIn[1], r.checkOut[1]),
     status |-> IF property.instant THEN "confirmed" ELSE "pending"]

(* !propertyId || !checkIn || !checkOut *)
BookingInvalid(r) == r.propertyId = 0 \/ r.checkIn = <<>> \/ r.checkOut = <<>>

(* readData(PROPERTIES_FILE) and the lookup of the property *)
BookProps(r, l, sh) ==
    LET i == PropIndex(sh.properties, r.propertyId) IN
    IF i = 0
    THEN Done(Reply(404, "NotFound", <<>>), sh)
    ELSE Wait("bookRead", [l EXCEPT !.property = sh.properties[i]], sh)

(* readData(BOOKINGS_FILE), the availability test and the push *)
BookRead(r, l, sh) ==
    IF HasConflict(sh.bookings, r.propertyId, r.checkIn[1], r.checkOut[1])
    THEN Done(Reply(400, "DatesUnavailable", <<>>), sh)
    ELSE LET bk == NewBooking(sh.nextId.bookings + 1, r, l.property) IN
         Wait("bookWrite",
              [l EXCEPT !.data = Append(sh.bookings, bk),
                        !.index = Len(sh.bookings) + 1],
              [sh EXCEPT !.nextId.bookings = @ + 1])

(* BookWrite with the availability test made again on the store *)
BookWriteRechecked(r, l, sh) ==
    IF HasConflict(sh.bookings, r.propertyId, r.checkIn[1], r.checkOut[1])
    THEN Done(Reply(400, "DatesUnavailable", <<>>), sh)
    ELSE Done(Reply(201, "", <<l.data[l.index]>>), [sh EXCEPT !.bookings = l.data])

BookWrite(r, l, sh) ==
    Done(Reply(201, "", <<l.data[l.index]>>), [sh EXCEPT !.bookings = l.data])

(* GET /api/bookings/my *)
MyBookingsRead(r, l, sh) ==
    Done(Reply(200, "", SelectSeq(sh.bookings, LAMBDA b : b.userId = r.cred)), sh)

(* GET /api/bookings/my/properties: readData(PROPERTIES_FILE), the         *)
(* caller's properties                                                     *)
OwnerBookingsProps(r, l, sh) ==
    Wait("ownerBookingsRead", [l EXCEPT !.data = OwnedBy(sh.properties, r.cred)], sh)

(* readData(BOOKINGS_FILE): the bookings of these properties *)
OwnerBookingsRead(r, l, sh) ==
    LET ids == {l.data[i].id : i \in 1..Len(l.data)} IN
    Done(Reply(200, "", SelectSeq(sh.bookings, LAMBDA b : b.propertyId \in ids)), sh)

(* bookings.findIndex((b) => b.id === id) + 1 *)
BookingIndex(bks, id) ==
    IF \E i \in 1..Len(bks) : bks[i].id = id
    THEN CHOOSE i \in 1..Len(bks) :
            /\ bks[i].id = id
            /\ \A j \in 1..(i - 1) : bks[j].id # id
    ELSE 0

(* PUT /api/bookings/:id/status: readData(BOOKINGS_FILE) and the lookup *)
StatusRead(r, l, sh) ==
    LET i == BookingIndex(sh.bookings, r.id) IN
    IF i = 0
    THEN Done(Reply(404, "NotFound", <<>>), sh)
    ELSE Wait("statusProps", [l EXCEPT !.data = sh.bookings, !.index = i], sh)

(* MayNotUpdate with the guest of the booking let through *)
MayNotUpdateButGuest(props, bk, u) ==
    LET i == PropIndex(props, bk.propertyId) IN
    IF i = 0 THEN TRUE ELSE props[i].ownerId # u /\ bk.userId # u

(* !property || property.ownerId !== req.user.userId *)
MayNotUpdate(props, bk, u) ==
    LET i == PropIndex(props, bk.propertyId) IN
    IF i = 0 THEN TRUE ELSE props[i].ownerId # u

(* StatusProps with the status set before the ownership test, and saved *)
StatusPropsEager(r, l, sh) ==
    IF MayNotUpdate(sh.properties, l.data[l.index], r.cred)
    THEN Done(Reply(403, "Forbidden", <<>>),
              [sh EXCEPT !.bookings = [l.data EXCEPT ![l.index].status = r.status]])
    ELSE Wait("statusWrite", [l EXCEPT !.data[l.index].status = r.status], sh)

(* readData(PROPERTIES_FILE), the ownership test and the new status *)
StatusProps(r, l, sh) ==
    IF MayNotUpdate(sh.properties, l.data[l.index], r.cred)
    THEN Done(Reply(403, "Forbidden", <<>>), sh)
    ELSE Wait("statusWrite", [l EXCEPT !.data[l.index].status = r.status], sh)

(* StatusWrite with the booking priced again at the property's price *)
StatusWriteRepricing(r, l, sh) ==
    LET bk == l.data[l.index]
        k == PropIndex(sh.properties, bk.propertyId)
        priced == [bk EXCEPT !.totalPrice =
                                sh.properties[k].price * Nights(bk.checkIn, bk.checkOut)]
    IN Done(Reply(200, "", <<priced>>),
            [sh EXCEPT !.bookings = [l.data EXCEPT ![l.index] = priced]])

StatusWrite(r, l, sh) ==
    Done(Reply(200, "", <<l.data[l.index]>>), [sh EXCEPT !.bookings = l.data])

----------------------------------------------------------------------------
(* The routes *)

(* Gated without the route of booking updateStatus *)
GatedListingsOnly == {"createListing", "updateListing", "deleteListing", "listMine",
                      "ownerBookings"}

(* The routes declared with checkSubscription after authenticateToken *)
Gated == {"createListing", "updateListing", "deleteListing", "listMine",
          "ownerBookings", "updateStatus"}

(* The first stretch of a handler, up to its first await *)
Entry(r, sub, sh) ==
    CASE r.op = "subscribe" ->
            IF r.planId = "" THEN Done(Reply(400, "ValidationError", <<>>), sh)
            ELSE IF FindPlan(r.planId) = 0 THEN Done(Reply(400, "InvalidPlan", <<>>), sh)
            ELSE Wait("subscribeRead", NoLoc, sh)
      [] r.op = "createBooking" ->
            IF BookingInvalid(r) THEN Done(Reply(400, "ValidationError", <<>>), sh)
            ELSE Wait("bookProps", NoLoc, sh)
      [] r.op = "myBookings" -> Wait("myBookingsRead", NoLoc, sh)
      [] r.op = "mySubscription" -> Wait("mySubscriptionRead", NoLoc, sh)
      [] OTHER -> HandlerEntry(r, sub, sh)

(* The request arrives: authenticateToken, then checkSubscription or the   *)
(* handler.                                                                *)
Start(r, sh) ==
    IF r.op = "register" THEN RegisterEntry(r, sh)
    ELSE IF AuthFails(r.cred) THEN Done(AuthReply(r.cred), sh)
    ELSE IF r.op \in Gated THEN Wait("gate", NoLoc, sh)
    ELSE Entry(r, NoSub, sh)

(* The stretch that starts at p, run at time t on the stores sh *)
Step(p, r, l, sh, t) ==
    CASE p = "gate" -> CheckSubscription(r, l, sh, t)
      [] p = "gateWrite" -> ExpireWrite(r, l, sh)
      [] p = "subscribeRead" -> SubscribeRead(r, l, sh, t)
      [] p = "subscribeWrite" -> SubscribeWrite(r, l, sh)
      [] p = "createCount" -> CreateCount(r, l, sh)
      [] p = "createRead" -> CreateRead(r, l, sh)
      [] p = "createWrite" -> CreateWrite(r, l, sh)
      [] p = "updateRead" -> UpdateRead(r, l, sh)
      [] p = "updateWrite" -> UpdateWrite(r, l, sh)
      [] p = "deleteRead" -> DeleteRead(r, l, sh)
      [] p = "deleteWrite" -> DeleteWrite(r, l, sh)
      [] p = "listMineRead" -> ListMineRead(r, l, sh)
      [] p = "bookProps" -> BookProps(r, l, sh)
      [] p = "bookRead" -> BookRead(r, l, sh)
      [] p = "bookWrite" -> BookWrite(r, l, sh)
      [] p = "myBookingsRead" -> MyBookingsRead(r, l, sh)
      [] p = "ownerBookingsProps" -> OwnerBookingsProps(r, l, sh)
      [] p = "ownerBookingsRead" -> OwnerBookingsRead(r, l, sh)
      [] p = "statusRead" -> StatusRead(r, l, sh)
      [] p = "statusProps" -> StatusProps(r, l, sh)
      [] p = "statusWrite" -> StatusWrite(r, l, sh)
      [] p = "registerRead" -> RegisterRead(r, l, sh)
      [] p = "registerHash" -> RegisterHash(r, l, sh)
      [] p = "registerWrite" -> RegisterWrite(r, l, sh)
      [] p = "mySubscriptionRead" -> MySubscriptionRead(r, l, sh)

(* A handler run to its response with nothing in between *)
RECURSIVE Run(_, _, _)
Run(x, r, t) ==
    IF x.pc = "idle" THEN x
    ELSE CHOOSE y \in {Run(z, r, t) : z \in {Step(x.pc, r, x.loc, x.sh, t)}} : TRUE

(* The requests *)
RegisterReq(email, password, name) ==
    [NoReq EXCEPT !.op = "register", !.email = email, !.password = password,
                  !.name = name]
SubscribeReq(c, planId) == [NoReq EXCEPT !.op = "subscribe", !.cred = c, !.planId = planId]
CreateListingReq(c, title, location, price) ==
    [NoReq EXCEPT !.op = "createListing", !.cred = c, !.title = title,
                  !.location = location, !.price = price]
(* The client's property form: the create request with the form's instant *)
(* checkbox                                                                *)
PropertyFormReq(c, title, location, price, instant) ==
    [CreateListingReq(c, title, location, price) EXCEPT !.instant = instant]
UpdateListingReq(c, id, patch) ==
    [NoReq EXCEPT !.op = "updateListing", !.cred = c, !.id = id, !.patch = patch]
DeleteListingReq(c, id) == [NoReq EXCEPT !.op = "deleteListing", !.cred = c, !.id = id]
ListMineReq(c) == [NoReq EXCEPT !.op = "listMine", !.cred = c]
CreateBookingReq(c, propertyId, checkIn, checkOut) ==
    [NoReq EXCEPT !.op = "createBooking", !.cred = c, !.propertyId = propertyId,
                  !.checkIn = checkIn, !.checkOut = checkOut]
MyBookingsReq(c) == [NoReq EXCEPT !.op = "myBookings", !.cred = c]
MySubscriptionReq(c) == [NoReq EXCEPT !.op = "mySubscription", !.cred = c]
OwnerBookingsReq(c) == [NoReq EXCEPT !.op = "ownerBookings", !.cred = c]
UpdateStatusReq(c, id, status) ==
    [NoReq EXCEPT !.op = "updateStatus", !.cred = c, !.id = id, !.status = status]

----------------------------------------------------------------------------
(* Actions *)

(* The model stops handing out ids at cap. *)
WithinCaps(sh, cap) == \A k \in DOMAIN cap : sh.nextId[k] <= cap[k]

Caps == [subscriptions |-> MaxSubs, properties |-> MaxProps, bookings |-> MaxBookings]

CapsBook == [subscriptions |-> MaxSubs, properties |-> MaxListings,
             bookings |-> MaxBookings]

CapsConflict == [subscriptions |-> MaxSubs, properties |-> MaxProps,
                 bookings |-> MaxBookings + 1]

Store(sh) ==
    /\ users' = sh.users
    /\ subscriptions' = sh.subscriptions
    /\ properties' = sh.properties
    /\ bookings' = sh.bookings
    /\ nextId' = sh.nextId

(* One request at a time: the request r is handled from arrival to response. *)
Handle(r, cap) ==
    /\ \A s \in Slots : pc[s] = "idle"
    /\ \E x \in {Run(Start(r, Cur), r, now)} :
          /\ WithinCaps(x.sh, cap)
          /\ Store(x.sh)
          /\ last' = [req |-> r, resp |-> x.resp, pre |-> Cur]
    /\ UNCHANGED <<now, pc, req, loc>>

(* Requests in flight together: slot s runs one stretch, which left x. *)
Stretch(s, r, x, cap) ==
    /\ WithinCaps(x.sh, cap)
    /\ Store(x.sh)
    /\ pc' = [pc EXCEPT ![s] = x.pc]
    /\ loc' = [loc EXCEPT ![s] = x.loc]
    /\ req' = [req EXCEPT ![s] = IF x.pc = "idle" THEN NoReq ELSE r]
    /\ last' = IF x.pc = "idle" THEN [req |-> r, resp |-> x.resp, pre |-> Cur] ELSE NoLast
    /\ UNCHANGED now

(* The request r arrives in the free slot s. *)
Begin(s, r, cap) ==
    /\ pc[s] = "idle"
    /\ \E x \in {Start(r, Cur)} : Stretch(s, r, x, cap)

(* The request of slot s goes on after the await at p. *)
Resume(s, p, cap) ==
    /\ pc[s] = p
    /\ \E x \in {Step(p, req[s], loc[s], Cur, now)} : Stretch(s, req[s], x, cap)

(* The clock *)
Tick ==
    /\ now + TickDays <= MaxNow
    /\ now' = now + TickDays
    /\ last' = NoLast
    /\ UNCHANGED <<users, subscriptions, properties, bookings, nextId, pc, req, loc>>

(* The operations, one request at a time *)
Register(email, password, name, cap) == Handle(RegisterReq(email, password, name), cap)
Subscribe(c, planId, cap) == Handle(SubscribeReq(c, planId), cap)
CreateListing(c, title, location, price, cap) ==
    Handle(CreateListingReq(c, title, location, price), cap)
SubmitPropertyForm(c, title, location, price, instant, cap) ==
    Handle(PropertyFormReq(c, title, location, price, instant), cap)
UpdateListing(c, id, patch, cap) == Handle(UpdateListingReq(c, id, patch), cap)
DeleteListing(c, id, cap) == Handle(DeleteListingReq(c, id), cap)
ListMine(c, cap) == Handle(ListMineReq(c), cap)
CreateBooking(c, propertyId, checkIn, checkOut, cap) ==
    Handle(CreateBookingReq(c, propertyId, checkIn, checkOut), cap)
MyBookings(c, cap) == Handle(MyBookingsReq(c), cap)
MySubscription(c, cap) == Handle(MySubscriptionReq(c), cap)
OwnerBookings(c, cap) == Handle(OwnerBookingsReq(c), cap)
UpdateStatus(c, id, status, cap) == Handle(UpdateStatusReq(c, id, status), cap)

----------------------------------------------------------------------------
(* Specifications *)

(* The stores as initData leaves them, and the users of the verified       *)
(* tokens registered.                                                      *)
Init ==
    /\ now = 0
    /\ users = Registered
    /\ subscriptions = <<>>
    /\ properties = <<>>
    /\ bookings = <<>>
    /\ nextId = [users |-> 0, subscriptions |-> 0, properties |-> 0, bookings |-> 0]
    /\ pc = [s \in Slots |-> "idle"]
    /\ req = [s \in Slots |-> NoReq]
    /\ loc = [s \in Slots |-> NoLoc]
    /\ last = NoLast

Dates == {<<d>> : d \in 0..MaxDate}

(* The subscription lifecycle and the gate, one request at a time, over    *)
(* days                                                                    *)
Next ==
    \/ Tick
    \/ \E c \in Creds, p \in PlanInputs : Subscribe(c, p, CapsBook)
    \/ \E c \in Creds : ListMine(c, CapsBook)
    \/ \E c \in Users : CreateListing(c, "Flat", "Paris", Num(100), CapsBook)

Spec == Init /\ [][Next]_vars

(* The subscription lifecycle and the gate, two requests in flight *)
NextConc ==
    \/ Tick
    \/ \E s \in Slots, c \in Users : Begin(s, SubscribeReq(c, "premium"), Caps)
    \/ \E s \in Slots, c \in Users : Begin(s, ListMineReq(c), Caps)
    \/ \E s \in Slots : Resume(s, "subscribeRead", Caps)
    \/ \E s \in Slots : Resume(s, "subscribeWrite", Caps)
    \/ \E s \in Slots : Resume(s, "gate", Caps)
    \/ \E s \in Slots : Resume(s, "gateWrite", Caps)
    \/ \E s \in Slots : Resume(s, "listMineRead", Caps)

SpecConc == Init /\ [][NextConc]_vars

(* Every route, one request at a time, within one day: u1 lists, u2 books  *)

Stays == {ab \in Dates \X Dates : ab[1][1] < ab[2][1] /\ ab[2][1] <= MaxStay}

NextBook ==
    \/ \E c \in Users : Subscribe(c, "premium", CapsBook)
    \/ CreateListing("u1", "Flat", "Paris", Num(100), CapsBook)
    \/ \E c \in Users, id \in 1..MaxListings :
          UpdateListing(c, id, [instant |-> TRUE], CapsBook)
    \/ \E c \in Users, id \in 1..MaxListings : DeleteListing(c, id, CapsBook)
    \/ \E c \in Users : ListMine(c, CapsBook)
    \/ \E id \in 1..MaxListings, ab \in Stays :
          CreateBooking("u2", id, ab[1], ab[2], CapsBook)
    \/ \E c \in Users : MyBookings(c, CapsBook)
    \/ \E c \in Users : OwnerBookings(c, CapsBook)
    \/ \E c \in Users, id \in 1..MaxBookings, st \in {"confirmed", "cancelled"} :
          UpdateStatus(c, id, st, CapsBook)

SpecBook == Init /\ [][NextBook]_vars

(* The basic plan's limit, one request at a time, within one day *)
NextCap ==
    \/ \E c \in Users, p \in {"basic", "premium", "enterprise"} : Subscribe(c, p, Caps)
    \/ \E c \in Users : CreateListing(c, "Flat", "Paris", Num(100), Caps)

SpecCap == Init /\ [][NextCap]_vars

(* The availability test of booking create: one request on a bookings      *)
(* store drawn from the stores the program can have built for two listings *)
(* of u1, the second made instant, with bookings of u2 that the owner has  *)
(* confirmed or not.                                                       *)
StoredBooking ==
    {[id |-> 0, propertyId |-> p, userId |-> "u2", checkIn |-> a, checkOut |-> b,
      totalPrice |-> ParseFloat(Num(100)) * Nights(a, b), status |-> st] :
        p \in 1..2, a \in 0..MaxDate, b \in 0..MaxDate, st \in {"pending", "confirmed"}}

StoredBookings ==
    UNION {{[i \in 1..n |-> [f[i] EXCEPT !.id = i]] : f \in [1..n -> StoredBooking]} :
            n \in 0..MaxBookings}

InitConflict ==
    /\ now = 0
    /\ users = Registered
    /\ subscriptions = SubscribeApply(<<>>, "u1", plans[2], 0, 1)
    /\ properties =
          LET p1 == NewProperty(1, CreateListingReq("u1", "Flat", "Paris", Num(100)),
                                subscriptions[1])
              p2 == NewProperty(2, CreateListingReq("u1", "Flat", "Paris", Num(100)),
                                subscriptions[1])
          IN <<p1, MergePatch(p2, [instant |-> TRUE])>>
    /\ bookings \in StoredBookings
    /\ nextId = [users |-> 0, subscriptions |-> 1, properties |-> 2,
                 bookings |-> Len(bookings)]
    /\ pc = [s \in Slots |-> "idle"]
    /\ req = [s \in Slots |-> NoReq]
    /\ loc = [s \in Slots |-> NoLoc]
    /\ last = NoLast

NextConflict ==
    /\ last = NoLast
    /\ \E id \in 1..2, a \in Dates, b \in Dates :
          CreateBooking("u2", id, a, b, CapsConflict)

SpecConflict == InitConflict /\ [][NextConflict]_vars

----------------------------------------------------------------------------
(* Properties.  A property of one request reads it off last: the request, *)
(* its response, and the stores before (last.pre) and after it.            *)

(* The request answered by the last step was op, sent by a verified user *)
Answered(op) == last.req.op = op /\ last.req.cred \in Users

(* The half-open stays of two bookings overlap *)
Overlap(x, y) == x.checkIn < y.checkOut /\ y.checkIn < x.checkOut

(* C1: in every state of the bookings collection, no two confirmed        *)
(* bookings of one property have overlapping [checkIn, checkOut) stays.    *)
C1_NoOverlappingConfirmed ==
    \A i \in 1..Len(bookings), j \in 1..Len(bookings) :
        ( /\ i # j
          /\ bookings[i].propertyId = bookings[j].propertyId
          /\ bookings[i].status = "confirmed"
          /\ bookings[j].status = "confirmed" )
        => ~Overlap(bookings[i], bookings[j])

(* The records of user u in subs with status st *)
WithStatus(subs, u, st) ==
    {i \in 1..Len(subs) : subs[i].userId = u /\ subs[i].status = st}

(* C2: each user has at most one subscription record with status active,  *)
(* in every state, also when subscribe calls and gated requests interleave *)
(* at their reads and writes of the store.                                 *)
C2_OneActivePerUser ==
    \A u \in Users : Cardinality(WithStatus(subscriptions, u, "active")) <= 1

(* C2, its case: a subscribe that had read the store before another        *)
(* subscribe of the same user wrote it has now written its own snapshot.    *)
C2_InterleavedSubscribes ==
    /\ Answered("subscribe")
    /\ last.resp.code = 200
    /\ \E i \in WithStatus(last.pre.subscriptions, last.req.cred, "active") :
          last.pre.subscriptions[i].id # last.resp.body[1].id

(* C3 as stated: a gated request of a user whose subscription the gate has *)
(* expired, and who has not subscribed again, fails with                   *)
(* SubscriptionExpired.                                                    *)
C3_ExpiredOnEveryLaterCall ==
    ( /\ last.req.op \in Gated
      /\ last.req.cred \in Users
      /\ WithStatus(last.pre.subscriptions, last.req.cred, "active") = {}
      /\ WithStatus(last.pre.subscriptions, last.req.cred, "expired") # {} )
    => last.resp.error = "SubscriptionExpired"

(* C3, amended: a gated request of a user whose active subscription has    *)
(* expiresAt earlier than now sets that record's status to "expired" and   *)
(* fails with SubscriptionExpired; every later gated request of that user, *)
(* until the user subscribes again, fails with SubscriptionRequired and    *)
(* changes no record.                                                      *)
C3_ExpiredOnceThenRequired ==
    (last.req.op \in Gated /\ last.req.cred \in Users) =>
        LET pre == last.pre.subscriptions
            u == last.req.cred
            act == WithStatus(pre, u, "active")
        IN /\ \A i \in act :
                 pre[i].expiresAt < now =>
                    /\ last.resp.error = "SubscriptionExpired"
                    /\ subscriptions = [pre EXCEPT ![i].status = "expired"]
           /\ (act = {} /\ WithStatus(pre, u, "expired") # {}) =>
                 /\ last.resp.error = "SubscriptionRequired"
                 /\ subscriptions = pre

(* C3, its case: the second gated call after the expiry *)
C3_CallAfterExpiry ==
    /\ last.req.op \in Gated
    /\ last.req.cred \in Users
    /\ WithStatus(last.pre.subscriptions, last.req.cred, "active") = {}
    /\ WithStatus(last.pre.subscriptions, last.req.cred, "expired") # {}
    /\ last.resp.error = "SubscriptionRequired"

(* The confirmed bookings of the property the answered request names, as   *)
(* the request found them                                                  *)
ConfirmedBefore ==
    {i \in 1..Len(last.pre.bookings) :
        /\ last.pre.bookings[i].propertyId = last.req.propertyId
        /\ last.pre.bookings[i].status = "confirmed"}

(* C4: for a candidate stay [a, b) with a < b on a property whose          *)
(* confirmed bookings [c, d) all have c < d, booking create fails with     *)
(* DatesUnavailable if and only if a < d and c < b for one of them; a      *)
(* candidate that checks in when a confirmed booking checks out does not   *)
(* conflict, and pending bookings and bookings of another property never   *)
(* cause a conflict.                                                       *)
C4_ConflictIffOverlap ==
    LET a == last.req.checkIn[1]
        b == last.req.checkOut[1]
        pre == last.pre.bookings
    IN ( /\ Answered("createBooking")
         /\ PropIndex(last.pre.properties, last.req.propertyId) # 0
         /\ a < b
         /\ \A i \in ConfirmedBefore : pre[i].checkIn < pre[i].checkOut )
       => /\ last.resp.error = "DatesUnavailable" <=>
                \E i \in ConfirmedBefore : a < pre[i].checkOut /\ pre[i].checkIn < b
          /\ last.resp.error # "DatesUnavailable" => last.resp.code = 201

(* C4, its case: a stay that starts when a confirmed one ends, and that    *)
(* overlaps a booking that is pending or of the other property, is booked. *)
C4_TouchingStayBooked ==
    LET a == last.req.checkIn[1]
        b == last.req.checkOut[1]
        pre == last.pre.bookings
    IN /\ Answered("createBooking")
       /\ a < b
       /\ last.resp.code = 201
       /\ \E i \in ConfirmedBefore : pre[i].checkIn < pre[i].checkOut /\ pre[i].checkOut = a
       /\ \E i \in 1..Len(pre) :
             /\ i \notin ConfirmedBefore
             /\ a < pre[i].checkOut /\ pre[i].checkIn < b

(* C5: a subscribe by a user who has an active record updates that record: *)
(* its id stays, its planId and price become those of the requested plan,  *)
(* and the subscriptions collection keeps its number of records.           *)
C5_SubscribeUpdatesInPlace ==
    (Answered("subscribe") /\ last.resp.code = 200) =>
        LET pre == last.pre.subscriptions
            plan == plans[FindPlan(last.req.planId)]
        IN \A i \in WithStatus(pre, last.req.cred, "active") :
              /\ Len(subscriptions) = Len(pre)
              /\ subscriptions[i].id = pre[i].id
              /\ subscriptions[i].userId = pre[i].userId
              /\ subscriptions[i].status = "active"
              /\ subscriptions[i].planId = last.req.planId
              /\ subscriptions[i].price = plan.price
              /\ \A j \in 1..Len(pre) : j # i => subscriptions[j] = pre[j]
              /\ last.resp.body = <<subscriptions[i]>>

(* C5, its case: a user with an active record has subscribed to another    *)
(* plan.                                                                   *)
C5_PlanChanged ==
    /\ Answered("subscribe")
    /\ last.resp.code = 200
    /\ \E i \in WithStatus(last.pre.subscriptions, last.req.cred, "active") :
          last.pre.subscriptions[i].planId # last.req.planId

(* C6: a successful subscribe leaves the record's expiresAt at the time of *)
(* the call plus 30 days, whatever it was before: after two calls at       *)
(* t1 < t2 it is t2 + 30 days, not t1 + 60 days.                           *)
C6_ExpiresAtFromCallTime ==
    (Answered("subscribe") /\ last.resp.code = 200) =>
        /\ Len(last.resp.body) = 1
        /\ last.resp.body[1].expiresAt = now + 30
        /\ \E i \in WithStatus(subscriptions, last.req.cred, "active") :
              subscriptions[i] = last.resp.body[1]

(* C6, its case: the second of two subscribe calls at t1 < t2, the first   *)
(* one's term still running                                                *)
C6_RenewedBeforeExpiry ==
    /\ Answered("subscribe")
    /\ last.resp.code = 200
    /\ \E i \in WithStatus(last.pre.subscriptions, last.req.cred, "active") :
          /\ last.pre.subscriptions[i].updatedAt < now
          /\ last.pre.subscriptions[i].expiresAt >= now
          /\ last.resp.body[1].expiresAt # last.pre.subscriptions[i].expiresAt + 30

(* The caller's first active record as the answered request found it, 0 if *)
(* there is none                                                           *)
ActiveBefore == ActiveIndex(last.pre.subscriptions, last.req.cred)

StoresUnchanged ==
    /\ subscriptions = last.pre.subscriptions
    /\ properties = last.pre.properties
    /\ bookings = last.pre.bookings

GateErrors == {"SubscriptionRequired", "SubscriptionExpired"}

(* C7: the gate's outcome follows from the caller's subscription records   *)
(* at the time of the call: with no active record the request fails with   *)
(* SubscriptionRequired and no collection changes; with an active record   *)
(* whose expiresAt < now it fails with SubscriptionExpired; otherwise the  *)
(* gate passes, leaves the subscriptions collection as it is, and the      *)
(* operation gets that record (a listing it creates is premium exactly     *)
(* when the record's plan is not basic).                                   *)
C7_GateOutcome ==
    (last.req.op \in Gated /\ last.req.cred \in Users) =>
        LET pre == last.pre.subscriptions
            i == ActiveBefore
        IN /\ i = 0 =>
                 last.resp.error = "SubscriptionRequired" /\ StoresUnchanged
           /\ (i # 0 /\ pre[i].expiresAt < now) =>
                 last.resp.error = "SubscriptionExpired"
           /\ (i # 0 /\ pre[i].expiresAt >= now) =>
                 /\ last.resp.error \notin GateErrors
                 /\ subscriptions = pre
                 /\ last.req.op = "listMine" => last.resp.code = 200
                 /\ last.req.op = "createListing" =>
                       /\ last.resp.code = 201
                       /\ last.resp.body[1].premium = (pre[i].planId # "basic")

(* C7, its case: the gate has passed a request of a user who has subscribed *)
(* again after an expiry, and the listing has the flag of the new record.   *)
C7_PassedWithRecord ==
    /\ Answered("createListing")
    /\ last.resp.code = 201
    /\ WithStatus(last.pre.subscriptions, last.req.cred, "expired") # {}
    /\ last.resp.body[1].premium
    /\ now > 0

(* C8: for a verified user with no active subscription, listing create,    *)
(* update, delete, listMine, the bookings of one's properties and booking  *)
(* updateStatus fail at the gate and change nothing; booking create and    *)
(* the list of one's own bookings succeed for a verified user with no      *)
(* subscription record at all.                                             *)
C8_GatedAndOpenRoutes ==
    last.req.cred \in Users =>
        LET u == last.req.cred
            pre == last.pre
            none == \A i \in 1..Len(pre.subscriptions) : pre.subscriptions[i].userId # u
        IN /\ ( /\ last.req.op \in {"createListing", "updateListing", "deleteListing",
                                    "listMine", "ownerBookings", "updateStatus"}
                /\ WithStatus(pre.subscriptions, u, "active") = {} )
              => /\ last.resp.code = 403
                 /\ last.resp.error = "SubscriptionRequired"
                 /\ StoresUnchanged
           /\ (last.req.op = "myBookings" /\ none) =>
                 /\ last.resp.code = 200
                 /\ last.resp.body = SelectSeq(bookings, LAMBDA b : b.userId = u)
           /\ ( /\ last.req.op = "createBooking" /\ none
                /\ PropIndex(pre.properties, last.req.propertyId) # 0
                /\ \A i \in ConfirmedBefore :
                      ~Overlap(pre.bookings[i],
                               [checkIn |-> last.req.checkIn[1],
                                checkOut |-> last.req.checkOut[1]]) )
              => /\ last.resp.code = 201
                 /\ bookings = Append(pre.bookings, last.resp.body[1])

(* C8, its case: a user with no subscription record has booked a stay *)
C8_BookedWithoutSubscription ==
    /\ Answered("createBooking")
    /\ last.resp.code = 201
    /\ \A i \in 1..Len(subscriptions) : subscriptions[i].userId # last.req.cred

(* The listings of user u in props *)
Owned(props, u) == {i \in 1..Len(props) : props[i].ownerId = u}

(* C9: a listing create by an owner whose active subscription is basic and *)
(* who owns 3 or more listings fails with PlanLimitExceeded and leaves the *)
(* properties collection as it was; a create by an owner whose active plan *)
(* is premium or enterprise is not rejected, however many listings the     *)
(* owner has.                                                              *)
C9_BasicPlanLimit ==
    (Answered("createListing") /\ ActiveBefore # 0) =>
        LET plan == last.pre.subscriptions[ActiveBefore].planId
            owned == Cardinality(Owned(last.pre.properties, last.req.cred))
        IN /\ (plan = "basic" /\ owned >= 3) =>
                 /\ last.resp.code = 403
                 /\ last.resp.error = "PlanLimitExceeded"
                 /\ properties = last.pre.properties
           /\ (plan = "basic" /\ owned < 3) => last.resp.code = 201
           /\ plan \in {"premium", "enterprise"} =>
                 /\ last.resp.code = 201
                 /\ properties = Append(last.pre.properties, last.resp.body[1])

(* C9, its case: the fourth create of a basic owner is refused, after the  *)
(* other user's listing has been created in between.                        *)
C9_FourthCreateRefused ==
    /\ Answered("createListing")
    /\ last.resp.error = "PlanLimitExceeded"
    /\ Cardinality(Owned(properties, last.req.cred)) = 3
    /\ Len(properties) = 4

(* C10: only the owner of the booking's property changes a booking's       *)
(* status.  For a booking that exists, updateStatus by a verified user who *)
(* does not own its property (the guest who made the booking included) is  *)
(* refused with status 403, as Forbidden when the user has passed the      *)
(* subscription gate, and leaves the bookings collection as it was;        *)
(* updateStatus by the owner, past the gate, sets the status to the        *)
(* requested value.                                                        *)
C10_OnlyOwnerUpdatesStatus ==
    LET pre == last.pre
        u == last.req.cred
        i == BookingIndex(pre.bookings, last.req.id)
        owner == \E k \in 1..Len(pre.properties) :
                    /\ pre.properties[k].id = pre.bookings[i].propertyId
                    /\ pre.properties[k].ownerId = u
    IN (Answered("updateStatus") /\ i # 0) =>
          /\ ~owner =>
                /\ last.resp.code = 403
                /\ bookings = pre.bookings
                /\ ActiveBefore # 0 => last.resp.error = "Forbidden"
          /\ (owner /\ ActiveBefore # 0) =>
                /\ last.resp.code = 200
                /\ bookings = [pre.bookings EXCEPT ![i].status = last.req.status]
                /\ last.resp.body = <<bookings[i]>>

(* C10, its case: the guest who made the booking, past the gate, is        *)
(* refused.                                                                *)
C10_GuestRefused ==
    /\ Answered("updateStatus")
    /\ last.resp.error = "Forbidden"
    /\ ActiveBefore # 0
    /\ \E i \in 1..Len(bookings) :
          bookings[i].id = last.req.id /\ bookings[i].userId = last.req.cred

(* C11: a booking that is created has status confirmed if the property's   *)
(* instant flag is true when it is created, and status pending otherwise.   *)
C11_StatusAtCreation ==
    (Answered("createBooking") /\ last.resp.code = 201) =>
        LET k == PropIndex(last.pre.properties, last.req.propertyId)
            bk == last.resp.body[1]
        IN /\ k # 0
           /\ bk.status = IF last.pre.properties[k].instant THEN "confirmed" ELSE "pending"
           /\ bookings = Append(last.pre.bookings, bk)

(* C11, its case: a stay is booked on a listing that its owner has made    *)
(* instant, after an earlier one was booked pending on the same listing.   *)
C11_ConfirmedAfterPending ==
    /\ Answered("createBooking")
    /\ last.resp.code = 201
    /\ last.resp.body[1].status = "confirmed"
    /\ \E i \in 1..Len(last.pre.bookings) :
          /\ last.pre.bookings[i].propertyId = last.req.propertyId
          /\ last.pre.bookings[i].status = "pending"

----------------------------------------------------------------------------
(* Listings and plans, one request at a time: both users subscribe, list,  *)
(* patch and delete, with ids that exist and one that does not.            *)
Patches == {[instant |-> TRUE], [premium |-> TRUE], [id |-> 0, ownerId |-> "u2"]}

CapsListing == [subscriptions |-> MaxSubs, properties |-> MaxCatalog,
                bookings |-> MaxBookings]

NextListing ==
    \/ \E c \in Users, p \in {"basic", "premium"} : Subscribe(c, p, CapsListing)
    \/ \E c \in Users : CreateListing(c, "Flat", "Paris", Num(100), CapsListing)
    \/ \E c \in Users, id \in 1..(MaxCatalog + 1), patch \in Patches :
          UpdateListing(c, id, patch, CapsListing)
    \/ \E c \in Users, id \in 1..(MaxCatalog + 1) : DeleteListing(c, id, CapsListing)

SpecListing == Init /\ [][NextListing]_vars

(* C12: a subscribe by the owner of listings (a first subscription, a      *)
(* change of plan, a renewal) leaves the properties collection as it was,  *)
(* so every listing keeps its premium flag.                                *)
C12_SubscribeKeepsListings ==
    Answered("subscribe") => properties = last.pre.properties

(* C12, its case: the owner of a premium listing has changed to the basic  *)
(* plan, and the listing is still premium.                                 *)
C12_DowngradedOwner ==
    /\ Answered("subscribe")
    /\ last.resp.code = 200
    /\ last.req.planId = "basic"
    /\ \E k \in 1..Len(properties) :
          properties[k].ownerId = last.req.cred /\ properties[k].premium
    /\ \E i \in WithStatus(last.pre.subscriptions, last.req.cred, "active") :
          last.pre.subscriptions[i].planId = "premium"

(* The listings of before the answered request that are still there, with  *)
(* the place each has now                                                  *)
Kept ==
    {kj \in (1..Len(last.pre.properties)) \X (1..Len(properties)) :
        last.pre.properties[kj[1]].id = properties[kj[2]].id}

(* C13: a listing update by its owner changes neither the listing's id nor *)
(* its ownerId, whatever the patch holds, id and ownerId fields included;  *)
(* a listing has one owner from its creation to its deletion.              *)
C13_UpdateKeepsIdAndOwner ==
    /\ (Answered("updateListing") /\ last.resp.code = 200) =>
          LET k == PropIndex(last.pre.properties, last.req.id) IN
          /\ k # 0
          /\ Len(properties) = Len(last.pre.properties)
          /\ properties[k].id = last.pre.properties[k].id
          /\ properties[k].ownerId = last.pre.properties[k].ownerId
          /\ last.resp.body = <<properties[k]>>
          /\ \A j \in 1..Len(properties) : j # k => properties[j] = last.pre.properties[j]
    /\ \A kj \in Kept :
          properties[kj[2]].ownerId = last.pre.properties[kj[1]].ownerId

(* C13, its case: the owner's patch names another id and another owner *)
C13_PatchedIdAndOwner ==
    /\ Answered("updateListing")
    /\ last.resp.code = 200
    /\ "ownerId" \in DOMAIN last.req.patch
    /\ last.req.patch.ownerId # last.req.cred
    /\ last.req.patch.id # last.req.id

(* C14: a listing update or delete, by a caller past the gate, fails with  *)
(* NotFound on an id that is not in the collection and with Forbidden on a *)
(* listing of another owner, and leaves the properties collection as it    *)
(* was; a listing is changed or removed only by a request of its owner.    *)
C14_ListingOwnership ==
    /\ ( /\ last.req.op \in {"updateListing", "deleteListing"}
         /\ last.req.cred \in Users
         /\ ActiveBefore # 0 ) =>
          LET k == PropIndex(last.pre.properties, last.req.id) IN
          /\ k = 0 =>
                /\ last.resp.code = 404 /\ last.resp.error = "NotFound"
                /\ properties = last.pre.properties
          /\ (k # 0 /\ last.pre.properties[k].ownerId # last.req.cred) =>
                /\ last.resp.code = 403 /\ last.resp.error = "Forbidden"
                /\ properties = last.pre.properties
    /\ \A k \in 1..Len(last.pre.properties) :
          (\A j \in 1..Len(properties) : properties[j] # last.pre.properties[k]) =>
             /\ last.req.op \in {"updateListing", "deleteListing"}
             /\ last.req.cred = last.pre.properties[k].ownerId
             /\ last.req.id = last.pre.properties[k].id
             /\ last.resp.code = 200

(* C14, its case: a subscribed user asks to delete the other user's listing *)
C14_ForeignDeleteRefused ==
    /\ Answered("deleteListing")
    /\ last.resp.error = "Forbidden"
    /\ ActiveBefore # 0
    /\ \E k \in 1..Len(properties) :
          properties[k].id = last.req.id /\ properties[k].ownerId # last.req.cred

(* C16: a listing's premium flag is the one it got when it was created     *)
(* (true exactly when the owner's plan was not basic): no later request    *)
(* changes it.                                                             *)
C16_PremiumFixedAtCreation ==
    /\ (Answered("createListing") /\ last.resp.code = 201) =>
          last.resp.body[1].premium =
             (last.pre.subscriptions[ActiveBefore].planId # "basic")
    /\ \A kj \in Kept :
          properties[kj[2]].premium = last.pre.properties[kj[1]].premium

----------------------------------------------------------------------------
(* Stays of any shape, one request at a time: u1 lists, and both users ask *)
(* for stays whose checkOut is after, at or before their checkIn.          *)
StayDates == {<<d>> : d \in 0..MaxStay}

NextStay ==
    \/ Subscribe("u1", "premium", CapsBook)
    \/ CreateListing("u1", "Flat", "Paris", Num(100), CapsBook)
    \/ \E id \in 1..MaxListings : UpdateListing("u1", id, [instant |-> TRUE], CapsBook)
    \/ \E c \in Users, id \in 1..MaxListings, a \in StayDates, b \in StayDates :
          CreateBooking(c, id, a, b, CapsBook)

SpecStay == Init /\ [][NextStay]_vars

(* C15: every booking in the bookings collection has its checkIn strictly  *)
(* before its checkOut; a booking create with checkOut <= checkIn is       *)
(* rejected and stores nothing.                                            *)
C15_StaysOrdered ==
    /\ \A i \in 1..Len(bookings) : bookings[i].checkIn < bookings[i].checkOut
    /\ ( /\ Answered("createBooking")
         /\ last.req.checkOut[1] <= last.req.checkIn[1] )
       => (last.resp.code >= 400 /\ bookings = last.pre.bookings)

----------------------------------------------------------------------------
(* Booking creates in flight together on one instant listing of u1: each   *)
(* request runs from await to await, in any order with the other.          *)
CapsRace == [subscriptions |-> MaxSubs, properties |-> MaxListings,
             bookings |-> MaxBookings + 1]

InitRace ==
    /\ now = 0
    /\ users = Registered
    /\ subscriptions = SubscribeApply(<<>>, "u1", plans[2], 0, 1)
    /\ properties =
          <<MergePatch(NewProperty(1, CreateListingReq("u1", "Flat", "Paris", Num(100)),
                                   subscriptions[1]),
                       [instant |-> TRUE])>>
    /\ bookings = <<>>
    /\ nextId = [users |-> 0, subscriptions |-> 1, properties |-> 1, bookings |-> 0]
    /\ pc = [s \in Slots |-> "idle"]
    /\ req = [s \in Slots |-> NoReq]
    /\ loc = [s \in Slots |-> NoLoc]
    /\ last = NoLast

NextRace ==
    \/ \E s \in Slots, c \in Users, ab \in Stays :
          Begin(s, CreateBookingReq(c, 1, ab[1], ab[2]), CapsRace)
    \/ \E s \in Slots : Resume(s, "bookProps", CapsRace)
    \/ \E s \in Slots : Resume(s, "bookRead", CapsRace)
    \/ \E s \in Slots : Resume(s, "bookWrite", CapsRace)

SpecRace == InitRace /\ [][NextRace]_vars

(* C17: booking create reads, checks and writes with no lock.  A request   *)
(* that has passed the availability test on the bookings it read writes    *)
(* its snapshot and answers 201 whatever another request has written since *)
(* its read, so two requests in flight together for overlapping stays of   *)
(* one property can both pass the test and both succeed.                   *)
C17_WriteWithoutRecheck ==
    [][\A s \in Slots :
          (pc[s] = "bookWrite" /\ pc'[s] = "idle") =>
             /\ last'.req = req[s]
             /\ last'.resp.code = 201
             /\ bookings' = loc[s].data]_vars

(* C17, its case: a create has succeeded although the store held, when it  *)
(* wrote, a confirmed booking of the same listing that another create had  *)
(* written for an overlapping stay.                                        *)
C17_BothSucceeded ==
    /\ Answered("createBooking")
    /\ last.resp.code = 201
    /\ \E i \in 1..Len(last.pre.bookings) :
          /\ last.pre.bookings[i].propertyId = last.req.propertyId
          /\ last.pre.bookings[i].status = "confirmed"
          /\ last.pre.bookings[i].id # last.resp.body[1].id
          /\ Overlap(last.pre.bookings[i], last.resp.body[1])

(* C18: the status of a booking changes only by a successful updateStatus  *)
(* of the owner of its property: booking create, listing update (setting   *)
(* instant included), listing delete and subscribe leave every existing    *)
(* booking with the status it had.                                         *)
C18_StatusOnlyByUpdateStatus ==
    \A i \in 1..Len(last.pre.bookings) :
        /\ i <= Len(bookings)
        /\ bookings[i].id = last.pre.bookings[i].id
        /\ bookings[i].status # last.pre.bookings[i].status =>
              /\ Answered("updateStatus")
              /\ last.resp.code = 200
              /\ last.req.id = bookings[i].id
              /\ bookings[i].status = last.req.status
              /\ \E k \in 1..Len(properties) :
                    /\ properties[k].id = bookings[i].propertyId
                    /\ properties[k].ownerId = last.req.cred

(* C18, its case: the owner has made instant a listing that has a pending  *)
(* booking, and the booking is still pending.                              *)
C18_PendingAfterInstant ==
    /\ Answered("updateListing")
    /\ last.resp.code = 200
    /\ last.resp.body[1].instant
    /\ \E i \in 1..Len(bookings) :
          bookings[i].propertyId = last.req.id /\ bookings[i].status = "pending"

(* C19: the only change of status of a subscription record is from active  *)
(* to expired, made by the gate on a request of the record's user; no      *)
(* other request changes a status, a record with status expired is never   *)
(* changed again, and subscribing after the expiry adds a new record.      *)
C19_StatusTransitions ==
    LET pre == last.pre.subscriptions IN
    /\ \A i \in 1..Len(subscriptions) : subscriptions[i].status \in {"active", "expired"}
    /\ \A i \in 1..Len(pre) :
          /\ i <= Len(subscriptions)
          /\ subscriptions[i].id = pre[i].id
          /\ subscriptions[i].userId = pre[i].userId
          /\ pre[i].status = "expired" => subscriptions[i] = pre[i]
          /\ subscriptions[i].status # pre[i].status =>
                /\ pre[i].status = "active"
                /\ subscriptions[i].status = "expired"
                /\ last.req.op \in Gated
                /\ last.req.cred = pre[i].userId
                /\ last.resp.error = "SubscriptionExpired"
    /\ ( /\ Answered("subscribe")
         /\ last.resp.code = 200
         /\ WithStatus(pre, last.req.cred, "active") = {} ) =>
          /\ Len(subscriptions) = Len(pre) + 1
          /\ subscriptions[Len(subscriptions)] = last.resp.body[1]
          /\ last.resp.body[1].status = "active"
          /\ last.resp.body[1].userId = last.req.cred
          /\ \A i \in 1..Len(pre) : last.resp.body[1].id # pre[i].id

(* C19, its case: a user whose record the gate has expired has subscribed  *)
(* again.                                                                  *)
C19_SubscribedAfterExpiry ==
    /\ Answered("subscribe")
    /\ last.resp.code = 200
    /\ WithStatus(last.pre.subscriptions, last.req.cred, "expired") # {}
    /\ WithStatus(last.pre.subscriptions, last.req.cred, "active") = {}

----------------------------------------------------------------------------
(* One request of any route, with inputs that pass and inputs that fail,   *)
(* on the stores as a marketplace session leaves them at each of its       *)
(* steps, and after the clock has run.                                     *)
Session ==
    << SubscribeReq("u1", "basic"),
       CreateListingReq("u1", "Flat", "Paris", Num(100)),
       UpdateListingReq("u1", 1, [instant |-> TRUE]),
       CreateBookingReq("u2", 1, <<0>>, <<2>>),
       CreateListingReq("u1", "Flat", "Paris", Num(100)),
       CreateListingReq("u1", "Flat", "Paris", Num(100)),
       SubscribeReq("u2", "premium"),
       CreateBookingReq("u1", 2, <<1>>, <<2>>) >>

(* The stores after the first k requests of the session, each handled at   *)
(* time 0                                                                  *)
RECURSIVE After(_)
After(k) ==
    IF k = 0 THEN [NoStores EXCEPT !.users = Registered]
    ELSE Run(Start(Session[k], After(k - 1)), Session[k], 0).sh

InitFail ==
    /\ now = 0
    /\ \E k \in 0..Len(Session) :
          \E sh \in {After(k)} :
             /\ users = sh.users
             /\ subscriptions = sh.subscriptions
             /\ properties = sh.properties
             /\ bookings = sh.bookings
             /\ nextId = sh.nextId
    /\ pc = [s \in Slots |-> "idle"]
    /\ req = [s \in Slots |-> NoReq]
    /\ loc = [s \in Slots |-> NoLoc]
    /\ last = NoLast

CapsFail == [users |-> MaxUsers, subscriptions |-> MaxSubs + 1,
             properties |-> MaxProps, bookings |-> MaxBookings + 1]

Texts(s) == {"", s}

NextFail ==
    /\ last = NoLast
    /\ \/ Tick
       \/ \E e \in {"", "ann@x", "eve@x"}, pw \in Texts("pw"), n \in Texts("Eve") :
             Register(e, pw, n, CapsFail)
       \/ \E c \in Creds, p \in PlanInputs : Subscribe(c, p, CapsFail)
       \/ \E c \in Creds, ti \in Texts("Flat"), lo \in Texts("Paris"),
             pr \in {Undefined, Num(0), Str(0), Num(100)} :
             CreateListing(c, ti, lo, pr, CapsFail)
       \/ \E c \in Creds, id \in 1..(MaxProps + 1), patch \in Patches :
             UpdateListing(c, id, patch, CapsFail)
       \/ \E c \in Creds, id \in 1..(MaxProps + 1) : DeleteListing(c, id, CapsFail)
       \/ \E c \in Creds : ListMine(c, CapsFail)
       \/ \E c \in Creds, id \in 0..(MaxProps + 1),
             a \in StayDates \cup {<<>>}, b \in StayDates \cup {<<>>} :
             CreateBooking(c, id, a, b, CapsFail)
       \/ \E c \in Creds : MyBookings(c, CapsFail)
       \/ \E c \in Creds : OwnerBookings(c, CapsFail)
       \/ \E c \in Creds, id \in 1..(MaxBookings + 1), st \in {"confirmed", "cancelled"} :
             UpdateStatus(c, id, st, CapsFail)

SpecFail == InitFail /\ [][NextFail]_vars

AllStoresUnchanged == users = last.pre.users /\ StoresUnchanged

(* C20: a request that fails leaves the four collections as they were,     *)
(* whatever the failure (InvalidPlan, ValidationError, PlanLimitExceeded,  *)
(* NotFound, Forbidden, DatesUnavailable, Unauthenticated,                 *)
(* SubscriptionRequired, a taken email), except a gated request that fails *)
(* with SubscriptionExpired: it changes the status of one subscription     *)
(* record, the caller's, to expired, and nothing else.                     *)
C20_FailuresChangeNothing ==
    last.resp.code >= 400 =>
        IF last.resp.error = "SubscriptionExpired"
        THEN /\ users = last.pre.users
             /\ properties = last.pre.properties
             /\ bookings = last.pre.bookings
             /\ \E i \in WithStatus(last.pre.subscriptions, last.req.cred, "active") :
                   subscriptions = [last.pre.subscriptions EXCEPT ![i].status = "expired"]
        ELSE /\ last.resp.error \in {"InvalidPlan", "ValidationError", "PlanLimitExceeded",
                                     "NotFound", "Forbidden", "DatesUnavailable",
                                     "Unauthenticated", "SubscriptionRequired",
                                     "EmailTaken"}
             /\ AllStoresUnchanged

(* C20, its case: the owner's request to confirm a booking fails at the    *)
(* gate because the subscription has run out, and only that record changes *)
C20_ExpiredAtUpdateStatus ==
    /\ Answered("updateStatus")
    /\ last.resp.error = "SubscriptionExpired"
    /\ bookings = last.pre.bookings
    /\ Len(bookings) > 0
    /\ subscriptions # last.pre.subscriptions

----------------------------------------------------------------------------
(* Prices and stays, one request at a time: u1 lists at a price and        *)
(* changes it, u2 books stays of whole and of broken days, u1 answers.     *)
LongStays == {ab \in Dates \X Dates : ab[1][1] < ab[2][1]}

NextPrice ==
    \/ Subscribe("u1", "premium", CapsBook)
    \/ \E pr \in {Num(100), Str(30)} : CreateListing("u1", "Flat", "Paris", pr, CapsBook)
    \/ \E id \in 1..MaxListings : UpdateListing("u1", id, [price |-> 50], CapsBook)
    \/ \E id \in 1..MaxListings, ab \in LongStays :
          CreateBooking("u2", id, ab[1], ab[2], CapsBook)
    \/ \E id \in 1..MaxBookings, st \in {"confirmed", "cancelled"} :
          UpdateStatus("u1", id, st, CapsBook)

SpecPrice == Init /\ [][NextPrice]_vars

(* C21: the totalPrice, propertyId, userId, checkIn and checkOut of a      *)
(* stored booking never change: updateStatus changes the status only, and  *)
(* a change of the property's price by its owner leaves the totalPrice of  *)
(* the bookings there are.                                                 *)
C21_BookingFieldsFixed ==
    \A i \in 1..Len(last.pre.bookings) :
        /\ i <= Len(bookings)
        /\ bookings[i] = [last.pre.bookings[i] EXCEPT !.status = bookings[i].status]

(* C21, its case: the owner has changed the price of a listing that has a  *)
(* booking made at the old price.                                          *)
C21_PriceChangedAfterBooking ==
    /\ Answered("updateListing")
    /\ last.resp.code = 200
    /\ \E k \in 1..Len(properties), i \in 1..Len(bookings) :
          /\ properties[k].id = last.req.id
          /\ bookings[i].propertyId = last.req.id
          /\ properties[k].price # last.pre.properties[k].price
          /\ bookings[i].totalPrice =
                last.pre.properties[k].price * Nights(bookings[i].checkIn, bookings[i].checkOut)

(* The whole number of days that covers a stay of len half days *)
NightsOf(len) ==
    CHOOSE n \in 0..len : n * DayLength >= len /\ (n - 1) * DayLength < len

(* C22: for a booking create with checkIn < checkOut, the totalPrice       *)
(* stored is the property's price at that time multiplied by the nights,   *)
(* the length of the stay in days rounded up (a stay of up to one day is   *)
(* one night).                                                             *)
C22_TotalPrice ==
    ( /\ Answered("createBooking")
      /\ last.resp.code = 201
      /\ last.req.checkIn[1] < last.req.checkOut[1] ) =>
        LET k == PropIndex(last.pre.properties, last.req.propertyId)
            len == last.req.checkOut[1] - last.req.checkIn[1]
        IN /\ NightsOf(len) >= 1
           /\ len <= DayLength => NightsOf(len) = 1
           /\ last.resp.body[1].totalPrice = last.pre.properties[k].price * NightsOf(len)
           /\ bookings[Len(bookings)] = last.resp.body[1]

(* C22, its case: a stay of a day and a half, booked after the price was   *)
(* changed, costs two nights at the new price.                             *)
C22_BrokenDayRoundedUp ==
    /\ Answered("createBooking")
    /\ last.resp.code = 201
    /\ last.req.checkOut[1] - last.req.checkIn[1] = DayLength + 1
    /\ last.resp.body[1].totalPrice = 2 * 50

(* C23: a subscription that subscribe has stored and answered for stays:   *)
(* the user's active record is in the subscriptions collection until the   *)
(* gate expires it on a request of that user, also when subscribes of      *)
(* other users and gated requests are in flight together with it.          *)
C23_SubscriptionDurable ==
    \A u \in Users :
        ( /\ WithStatus(last.pre.subscriptions, u, "active") # {}
          /\ WithStatus(subscriptions, u, "active") = {} )
        => /\ last.req.op \in Gated
           /\ last.req.cred = u
           /\ last.resp.error = "SubscriptionExpired"

(* C24: a listing create that reaches validation fails with                *)
(* ValidationError exactly when title, location or price is absent from    *)
(* the request; with all three present, price 0 included, validation lets  *)
(* it through.                                                             *)
C24_ValidationIffAbsent ==
    (Answered("createListing") /\ last.resp.error \notin GateErrors)
    => ( last.resp.error = "ValidationError"
         <=> \/ last.req.title = ""
             \/ last.req.location = ""
             \/ last.req.price.t = "undefined" )

----------------------------------------------------------------------------
(* Registration, two requests in flight: new users register with emails    *)
(* that are free, taken from the start, or asked for twice.                *)
Emails == {"ann@x", "eve@x", "dan@x"}

CapsRegister == [users |-> MaxUsers + 2]

NextRegister ==
    \/ \E s \in Slots, e \in Emails : Begin(s, RegisterReq(e, "pw", "Eve"), CapsRegister)
    \/ \E s \in Slots : Resume(s, "registerRead", CapsRegister)
    \/ \E s \in Slots : Resume(s, "registerHash", CapsRegister)
    \/ \E s \in Slots : Resume(s, "registerWrite", CapsRegister)

SpecRegister == Init /\ [][NextRegister]_vars

(* C25: no two records of the users collection have the same email, also   *)
(* when registers are in flight together; a register that finds its email  *)
(* in the collection it reads fails and leaves the collection unchanged,   *)
(* and only a register that did not find it goes on to write.              *)
C25_EmailsUnique ==
    /\ \A i \in 1..Len(users), j \in 1..Len(users) :
          users[i].email = users[j].email => i = j
    /\ \A s \in Slots :
          pc[s] = "registerHash" => ~EmailTaken(loc[s].data, req[s].email)
    /\ (last.req.op = "register" /\ last.resp.error = "EmailTaken")
       => /\ EmailTaken(last.pre.users, last.req.email)
          /\ AllStoresUnchanged
    /\ (last.req.op = "register" /\ last.resp.code = 201)
       => /\ EmailTaken(users, last.req.email)
          /\ Len(users) > Len(Registered)

(* Two registers with one email interleaved: the second is answered after  *)
(* the first one's user was stored.                                        *)
C25_RacingRegisters ==
    /\ last.req.op = "register"
    /\ last.resp.code = 201
    /\ EmailTaken(last.pre.users, last.req.email)

----------------------------------------------------------------------------
(* The subscription a user sees, one request at a time, over days: users   *)
(* subscribe, the gate expires records, users subscribe again and ask for  *)
(* their subscription.                                                     *)
NextMine ==
    \/ Tick
    \/ \E c \in Users, p \in {"basic", "premium"} : Subscribe(c, p, Caps)
    \/ \E c \in Users : ListMine(c, Caps)
    \/ \E c \in Creds : MySubscription(c, Caps)

SpecMine == Init /\ [][NextMine]_vars

(* C26: for a user with an active subscription record the my-subscription  *)
(* query answers with that active record, also when an older expired       *)
(* record of the user is in the collection, and the client's host button   *)
(* then opens the listing form.                                            *)
C26_MySubscriptionIsActiveOne ==
    (Answered("mySubscription") /\ WithStatus(subscriptions, last.req.cred, "active") # {})
    => /\ last.resp.code = 200
       /\ \E i \in WithStatus(subscriptions, last.req.cred, "active") :
             last.resp.body = <<subscriptions[i]>>
       /\ headerHostBtn(last.resp.body) = "property-modal"

----------------------------------------------------------------------------
(* Listing creates of basic-plan owners, two requests in flight *)
NextCapRace ==
    \/ \E s \in Slots, c \in Users : Begin(s, SubscribeReq(c, "basic"), Caps)
    \/ \E s \in Slots, c \in Users :
          Begin(s, CreateListingReq(c, "Flat", "Paris", Num(100)), Caps)
    \/ \E s \in Slots : Resume(s, "subscribeRead", Caps)
    \/ \E s \in Slots : Resume(s, "subscribeWrite", Caps)
    \/ \E s \in Slots : Resume(s, "gate", Caps)
    \/ \E s \in Slots : Resume(s, "createCount", Caps)
    \/ \E s \in Slots : Resume(s, "createRead", Caps)
    \/ \E s \in Slots : Resume(s, "createWrite", Caps)

SpecCapRace == Init /\ [][NextCapRace]_vars

(* C27: the basic plan's limit holds when listing creates of one owner are *)
(* in flight together: an owner whose subscription records are all basic   *)
(* never owns more than 3 listings.                                        *)
C27_CapUnderInterleaving ==
    \A u \in Users :
        (\A i \in 1..Len(subscriptions) :
            subscriptions[i].userId = u => subscriptions[i].planId = "basic")
        => Cardinality(Owned(properties, u)) <= BasicLimit

----------------------------------------------------------------------------
(* Instant booking, one request at a time: u1 submits the property form    *)
(* with the instant box on or off, owners and others update listings, u2   *)
(* books.                                                                  *)
NextInstant ==
    \/ \E c \in Users : Subscribe(c, "premium", CapsBook)
    \/ \E c \in Users, on \in BOOLEAN :
          SubmitPropertyForm(c, "Flat", "Paris", Str(100), on, CapsBook)
    \/ \E c \in Users, id \in 1..MaxListings, patch \in {[instant |-> TRUE], [price |-> 50]} :
          UpdateListing(c, id, patch, CapsBook)
    \/ \E id \in 1..MaxListings, ab \in Stays :
          CreateBooking("u2", id, ab[1], ab[2], CapsBook)

SpecInstant == Init /\ [][NextInstant]_vars

(* C28: a listing is created with instant = false whatever the create      *)
(* request asks for; a listing's instant flag turns true only in a         *)
(* successful update of that listing by its owner; and a booking created   *)
(* on a listing whose flag is still false is pending, so every booking on  *)
(* a listing that was never updated is pending.                            *)
C28_InstantOnlyByOwnerUpdate ==
    /\ (Answered("createListing") /\ last.resp.code = 201)
       => /\ last.resp.body[1].instant = FALSE
          /\ properties = Append(last.pre.properties, last.resp.body[1])
    /\ \A i \in 1..Len(properties) :
          LET k == PropIndex(last.pre.properties, properties[i].id) IN
          ( /\ last.req.op # ""
            /\ properties[i].instant = TRUE
            /\ (k = 0 \/ last.pre.properties[k].instant = FALSE) )
          => /\ k # 0
             /\ last.req.op = "updateListing"
             /\ last.req.id = properties[i].id
             /\ last.req.cred = properties[i].ownerId
             /\ last.resp.code = 200
    /\ (Answered("createBooking") /\ last.resp.code = 201)
       => LET k == PropIndex(last.pre.properties, last.req.propertyId) IN
          (k # 0 /\ last.pre.properties[k].instant = FALSE)
          => /\ last.resp.body[1].status = "pending"
             /\ bookings[Len(bookings)].status = "pending"

(* The form was sent with the instant box on, and the listing stored is    *)
(* not instant.                                                            *)
C28_InstantBoxIgnored ==
    /\ Answered("createListing")
    /\ last.req.instant = TRUE
    /\ last.resp.code = 201
    /\ properties[Len(properties)].instant = FALSE

(* C29: a successful delete of a listing removes that property record and  *)
(* nothing else: the bookings that reference it stay in the bookings       *)
(* collection as they were; and an updateStatus on a booking whose         *)
(* property is gone, by any user who is past the subscription gate, the    *)
(* former owner included, fails with Forbidden and changes nothing.        *)
C29_DeleteKeepsBookings ==
    /\ (Answered("deleteListing") /\ last.resp.code = 200) =>
          LET k == PropIndex(last.pre.properties, last.req.id) IN
          /\ k # 0
          /\ properties = Splice(last.pre.properties, k)
          /\ bookings = last.pre.bookings
          /\ subscriptions = last.pre.subscriptions
          /\ users = last.pre.users
    /\ (Answered("updateStatus") /\ ActiveBefore # 0) =>
          LET i == BookingIndex(last.pre.bookings, last.req.id) IN
          (i # 0 /\ PropIndex(last.pre.properties, last.pre.bookings[i].propertyId) = 0)
          => /\ last.resp.code = 403
             /\ last.resp.error = "Forbidden"
             /\ AllStoresUnchanged

(* The former owner asks for a status change on a booking of the listing   *)
(* they deleted, and is refused.                                           *)
C29_FormerOwnerRefused ==
    /\ Answered("updateStatus")
    /\ last.req.cred = "u1"
    /\ last.resp.error = "Forbidden"
    /\ properties = <<>>
    /\ \E i \in 1..Len(bookings) : bookings[i].id = last.req.id
====
